---- MODULE Spec2Model ----
\* Verification model of the RoboSats notifier: the check cycle of
\* src/src/index.js, the offer tracker of src/src/offerTracker.js, the
\* coordinator aggregation of robosatsClient (src/unnamed/part_003) and the
\* WhatsApp notifier (src/unnamed/part_001).
EXTENDS Integers, Sequences, FiniteSets, TLC

\* ------------------------------------------------------------------ bounds
MaxTime == 2            \* the clock Date.now() runs over 1..MaxTime
MaxSlots == 2           \* concurrent invocations of checkForNewOffers that are represented
MaxFileLen == 2         \* identifiers in a file of the array format

\* --------------------------------------------------------- program constants
defaultMaxAge == 1      \* 24 hours fallback, in clock units
ValidExpiry == 2        \* the expires_at the catalogue gives offer 1

\* JavaScript values that are not timestamps
NaN == -1               \* new Date("garbage").getTime()
Null == -2              \* null
Absent == -3            \* undefined: the field is missing
Garbage == -4           \* an expires_at string that Date cannot parse

Coordinators == {"a", "b"}
CoordSeq == <<"a", "b">>
OfferIds == {1, 2, 3}

\* The offers a coordinator can list: offer 1 carries a valid expires_at,
\* offer 2 none, offer 3 an unparseable one.  Offer 1 can be listed by both
\* coordinators.
ExpiresAtOf(id) == IF id = 1 THEN ValidExpiry ELSE IF id = 2 THEN Absent ELSE Garbage
Listable(c) == IF c = "a" THEN {1, 2, 3} ELSE {1}

VARIABLES
  seenOffers,          \* offerTracker.seenOffers: Map offerId -> record
  disk,                \* data/seen_offers.json
  now,                 \* Date.now()
  isReady,             \* whatsappClient.isReady
  BOT_ENABLED,         \* config.BOT_ENABLED
  IS_FIRST_RUN,        \* config.IS_FIRST_RUN
  notifValid,          \* validateNotificationConfig() does not throw
  WHATSAPP_GROUP_NAME, \* config.WHATSAPP_GROUP_NAME
  configFile,          \* the settings in config.json
  failedUpdate,        \* history: the configuration before the POST /api/settings
                       \* that failed, when no settings update followed it
  checkInterval,       \* index.js checkInterval is non-null
  armedTimers,         \* number of interval timers that are armed
  isCheckInProgress,   \* index.js isCheckInProgress
  shouldAbortCheck,    \* index.js shouldAbortCheck
  phase,               \* progress of start(): "boot", "waitReady", "startupCheck", "listening", "dead"
  cyc,                 \* the invocations of checkForNewOffers that are in flight
  last,                \* history: the cycle that ended most recently
  recMem,              \* history: offers notified and recorded, with the expiry recorded
  recDisk,             \* history: the part of recMem that a successful save made durable
  deleteCalls,         \* history: number of calls of whatsappClient.deleteMessage
                       \* that check cycles made (index.js has no call site)
  deleted,             \* history: how the last call of whatsappClient.deleteMessage ended
  initialized          \* history: the last run of offerTracker.initialize(): the kind
                       \* of file it found, its calls of save(), whether it threw

vars == <<seenOffers, disk, now, isReady, BOT_ENABLED, IS_FIRST_RUN, notifValid,
          WHATSAPP_GROUP_NAME, configFile, failedUpdate, checkInterval, armedTimers, isCheckInProgress,
          shouldAbortCheck, phase, cyc, last, recMem, recDisk, deleteCalls, deleted,
          initialized>>

storeVars == <<seenOffers, disk>>
configVars == <<BOT_ENABLED, IS_FIRST_RUN, notifValid, WHATSAPP_GROUP_NAME, configFile,
                failedUpdate>>
timerVars == <<checkInterval, armedTimers>>
histVars == <<last, recMem, recDisk, deleteCalls, deleted, initialized>>

Slots == 1..MaxSlots
EmptyMap == [x \in {} |-> Null]

\* ------------------------------------------------------------ pure helpers
RECURSIVE SetToSeq(_)
SetToSeq(S) ==
  IF S = {} THEN <<>>
  ELSE LET m == CHOOSE x \in S : \A y \in S : x <= y
       IN <<m>> \o SetToSeq(S \ {m})

SeqIds(offers) == {offers[k].id : k \in 1..Len(offers)}

RECURSIVE FilterSeq(_, _)
FilterSeq(s, keep) ==
  IF s = <<>> THEN <<>>
  ELSE (IF Head(s).id \in keep THEN <<Head(s)>> ELSE <<>>) \o FilterSeq(Tail(s), keep)

\* value <= now as JavaScript evaluates it: NaN compares false, null is 0
LeqNow(e, t) == IF e = NaN THEN FALSE ELSE IF e = Null THEN 0 <= t ELSE e <= t

\* ------------------------------------------------------------ offerTracker
CleanupNotExpired(seen, t) ==
  [id \in {x \in DOMAIN seen : LeqNow(seen[x].expiresAt, t)} |-> seen[id]]

\* cleanupExpiredOffers: the in-memory part
CleanupExpired(seen, t) ==
  [id \in {x \in DOMAIN seen : ~LeqNow(seen[x].expiresAt, t)} |-> seen[id]]

\* cleanupExpiredOffers: the store it leaves, removedCount, whether it calls
\* save(), and the value the call evaluates to (the function has no return
\* statement)
cleanupExpiredOffers(seen, t) ==
  LET cleaned == CleanupExpired(seen, t)
      removedCount == Cardinality(DOMAIN seen) - Cardinality(DOMAIN cleaned)
  IN [seen |-> cleaned, removedCount |-> removedCount, saves |-> removedCount > 0,
      returns |-> Absent]

isNewAlways(seen, offerId) == TRUE
isNew(seen, offerId) == offerId \notin DOMAIN seen

getNewOffers(seen, offers) == FilterSeq(offers, {id \in OfferIds : isNew(seen, id)})

\* the expiresAt markAsSeen computes
ResolveExpiry(expires_at, t) ==
  IF expires_at = Absent THEN t + defaultMaxAge
  ELSE IF expires_at = Garbage THEN NaN
  ELSE expires_at

markAsSeen(seen, offer, messageId, t) ==
  [id \in DOMAIN seen \cup {offer.id} |->
     IF id = offer.id
     THEN [expiresAt |-> ResolveExpiry(offer.expires_at, t), messageId |-> messageId, sentAt |-> t]
     ELSE seen[id]]

\* addOffers: offers.forEach(offer => this.markAsSeen(offer))
RECURSIVE addOffersMem(_, _, _)
addOffersMem(seen, offers, t) ==
  IF offers = <<>> THEN seen
  ELSE addOffersMem(markAsSeen(seen, Head(offers), Null, t), Tail(offers), t)

\* save: JSON.stringify of the map; NaN is written as null
Serialize(seen) ==
  [kind |-> "object",
   data |-> [id \in DOMAIN seen |->
              [expiresAt |-> IF seen[id].expiresAt = NaN THEN Null ELSE seen[id].expiresAt,
               messageId |-> seen[id].messageId,
               sentAt |-> seen[id].sentAt]]]

\* initialize: the records read from an object-format file
LoadObject(data) ==
  [id \in DOMAIN data |->
     [expiresAt |-> data[id].expiresAt, messageId |-> data[id].messageId, sentAt |-> data[id].sentAt]]

NoFile == [kind |-> "ENOENT", data |-> EmptyMap]
BadFile == [kind |-> "bad", data |-> EmptyMap]

\* the older formats of the file: a JSON array of offer ids, and a JSON object
\* that maps an offer id to its expiration timestamp
ArrayFile(ids) == [kind |-> "array", data |-> ids]
TimestampFile(stamps) == [kind |-> "timestamps", data |-> stamps]

MigrateArrayNoMaxAge(ids, t) ==
  [id \in {ids[k] : k \in 1..Len(ids)} |-> [expiresAt |-> t, messageId |-> Null, sentAt |-> Null]]

\* initialize lines 20-30: the records made from an array file
MigrateArray(ids, t) ==
  [id \in {ids[k] : k \in 1..Len(ids)} |->
     [expiresAt |-> t + defaultMaxAge, messageId |-> Null, sentAt |-> Null]]

MigrateTimestampsAsNew(stamps, t) ==
  [id \in DOMAIN stamps |-> [expiresAt |-> t + defaultMaxAge, messageId |-> Null, sentAt |-> Null]]

\* initialize lines 34-42: the records made from a map of timestamps
MigrateTimestamps(stamps, t) ==
  [id \in DOMAIN stamps |-> [expiresAt |-> stamps[id], messageId |-> Null, sentAt |-> Null]]

\* initialize lines 19-58: the records read from the parsed file
Parsed(file, t) ==
  IF file.kind = "array" THEN MigrateArray(file.data, t)
  ELSE IF file.kind = "timestamps" THEN MigrateTimestamps(file.data, t)
  ELSE LoadObject(file.data)

\* initialize lines 30, 53-57: whether the records are saved in the new format
needsMigration(file) ==
  \/ file.kind = "array"
  \/ file.kind = "timestamps" /\ DOMAIN file.data /= {}

\* the outcomes of fs.writeFile(file, data): written, or failed leaving the
\* old content or a truncated document
WriteKinds == {"ok", "failed", "truncated"}
writeFile(kind, old, data) ==
  IF kind = "ok" THEN [ok |-> TRUE, disk |-> data]
  ELSE IF kind = "failed" THEN [ok |-> FALSE, disk |-> old]
  ELSE [ok |-> FALSE, disk |-> BadFile]

saveSwallows(kind, old, data) == [ok |-> TRUE, disk |-> writeFile(kind, old, data).disk]

\* save: awaits fs.writeFile; its rejection propagates to the caller
save(kind, old, data) == writeFile(kind, old, data)

catchEveryError(kind) == TRUE

\* initialize lines 64-71: the catch block starts fresh when the file is
\* missing and rethrows every other error
catchStartsFresh(kind) == kind = "ENOENT"

\* initialize: the store, the file, the number of calls of save() and whether
\* initialize threw, for the file found at time t; kind1 is the outcome of the
\* write of the migration and kind2 of the write of cleanupExpiredOffers
initialize(file, t, kind1, kind2) ==
  IF file.kind \in {"ENOENT", "bad"}
  THEN [seen |-> EmptyMap, disk |-> file, saves |-> 0, threw |-> ~catchStartsFresh(file.kind)]
  ELSE LET loaded == Parsed(file, t)
           w1 == IF needsMigration(file) THEN save(kind1, file, Serialize(loaded))
                 ELSE [ok |-> TRUE, disk |-> file]
           n1 == IF needsMigration(file) THEN 1 ELSE 0
           cleaned == CleanupExpired(loaded, t)
           w2 == IF cleaned /= loaded THEN save(kind2, w1.disk, Serialize(cleaned))
                 ELSE [ok |-> TRUE, disk |-> w1.disk]
           n2 == IF cleaned /= loaded THEN 1 ELSE 0
       IN IF ~w1.ok
          THEN [seen |-> loaded, disk |-> w1.disk, saves |-> n1, threw |-> TRUE]
          ELSE [seen |-> cleaned, disk |-> w2.disk, saves |-> n1 + n2, threw |-> ~w2.ok]

\* ------------------------------------------------------------ whatsappClient
sendIgnoresReady(ready) == FALSE

\* sendToGroup, sendToContact: throw at once when the client is not ready
sendThrowsNotReady(ready) == ~ready

\* what the WhatsApp library does for a deleteMessage: the message is found
\* and deleted, getMessageById finds no message, or a call throws
DeleteOutcomes == {"deleted", "notFound", "error"}

\* deleteMessage: the boolean it returns, or "throws" when it throws
deleteMessage(ready, outcome) ==
  IF ~ready THEN "throws"
  ELSE IF outcome = "deleted" THEN "true"
  ELSE "false"

\* deleteMessage has not been called
NoDelete == [handle |-> 0, result |-> "none"]

\* ------------------------------------------------------------ robosatsClient
RawOffers(S) == SetToSeq(S)

Responses(c) == {[kind |-> "error", ids |-> {}], [kind |-> "notArray", ids |-> {}]}
                \cup {[kind |-> "array", ids |-> S] : S \in SUBSET Listable(c)}

\* what the coordinators answer to one getOrderBook
AllResponses ==
  {resp \in [Coordinators -> UNION {Responses(c) : c \in Coordinators}] :
     \A c \in Coordinators : resp[c] \in Responses(c)}

\* getOrderBook: the merged offers, each tagged with its coordinator, and the
\* coordinators that answered with an array
RECURSIVE getOrderBookFrom(_, _)
getOrderBookFrom(cs, resp) ==
  IF cs = <<>> THEN [offers |-> <<>>, reachableCoordinators |-> {}]
  ELSE LET c == Head(cs)
           rest == getOrderBookFrom(Tail(cs), resp)
       IN IF resp[c].kind = "array"
          THEN LET ids == RawOffers(resp[c].ids)
                   tagged == [k \in 1..Len(ids) |->
                                [id |-> ids[k], expires_at |-> ExpiresAtOf(ids[k]), coordinator |-> c]]
               IN [offers |-> tagged \o rest.offers,
                   reachableCoordinators |-> {c} \cup rest.reachableCoordinators]
          ELSE rest

\* variants of getOrderBook: a response that is not an array counts as an
\* empty listing; one failing coordinator empties the result; a coordinator
\* with an empty listing counts as not reached
getOrderBookLenient(resp) ==
  getOrderBookFrom(CoordSeq, [c \in Coordinators |->
     IF resp[c].kind = "notArray" THEN [kind |-> "array", ids |-> {}] ELSE resp[c]])
getOrderBookAllOrNothing(resp) ==
  IF \E c \in Coordinators : resp[c].kind /= "array"
  THEN [offers |-> <<>>, reachableCoordinators |-> {}]
  ELSE getOrderBookFrom(CoordSeq, resp)
getOrderBookNonEmpty(resp) ==
  getOrderBookFrom(CoordSeq, [c \in Coordinators |->
     IF resp[c] = [kind |-> "array", ids |-> {}] THEN [kind |-> "error", ids |-> {}] ELSE resp[c]])

getOrderBook(resp) == getOrderBookFrom(CoordSeq, resp)

\* ------------------------------------------------------------ index.js
\* the values of config.WHATSAPP_GROUP_NAME
Groups == {"g1", "g2"}

\* config.json: absent on a first run (loadConfig), otherwise the settings
\* saveConfig wrote; interval tells whether its CHECK_INTERVAL_MINUTES parses
NoConfigFile == [exists |-> FALSE, enabled |-> FALSE, valid |-> FALSE, group |-> "none",
                 interval |-> "none"]
ConfigFile(enabled, valid, group, interval) ==
  [exists |-> TRUE, enabled |-> enabled, valid |-> valid, group |-> group, interval |-> interval]

\* the file config.js was loaded from at startup
LoadedFrom(firstRun, enabled, valid, group) ==
  IF firstRun THEN NoConfigFile ELSE ConfigFile(enabled, valid, group, "ok")

\* no settings update has failed
NoFailedUpdate == [failed |-> FALSE, before |-> <<>>]

\* offerTracker.initialize() has not run
NotInitialized == [kind |-> "none", saves |-> 0, threw |-> FALSE]

\* no coordinator has been asked
NoAnswers == [c \in Coordinators |-> [kind |-> "none", ids |-> {}]]

\* a slot of cyc.  Besides the locals of checkForNewOffersInternal it keeps
\* history: answers, what the coordinators answered to the cycle's fetch;
\* saves, the calls of offerTracker.save() the cycle made; writeFailed, whether
\* fs.writeFile failed for one of them; threw, the error thrown inside the cycle;
\* startGroup, config.WHATSAPP_GROUP_NAME when the cycle began; evicted, what
\* the cycle's call of cleanupExpiredOffers returned
IdleSlot == [pc |-> "idle", caller |-> "none", allOffers |-> <<>>, reachable |-> {},
             newOffers |-> <<>>, i |-> 0, sent |-> <<>>, buf |-> NoFile,
             startSeen |-> EmptyMap, startSrc |-> EmptyMap, startNow |-> 0,
             atFetch |-> EmptyMap, fetched |-> FALSE,
             prevAgg |-> [fetched |-> FALSE, allOffers |-> <<>>, reachable |-> {}],
             prevOutcome |-> "none", retry |-> 0, repeat |-> FALSE, overlapped |-> FALSE,
             answers |-> NoAnswers, saves |-> 0, writeFailed |-> FALSE, threw |-> "none",
             startGroup |-> "none", evicted |-> Absent]

NoCycle == [outcome |-> "none", fetched |-> FALSE, allOffers |-> <<>>, reachable |-> {},
            newOffers |-> <<>>, sent |-> <<>>, failed |-> 0, startSeen |-> EmptyMap,
            startSrc |-> EmptyMap, startNow |-> 0, atFetch |-> EmptyMap,
            endSeen |-> EmptyMap, repeat |-> FALSE, prevOutcome |-> "none", retry |-> 0,
            answers |-> NoAnswers, saves |-> 0, writeFailed |-> FALSE, logged |-> "none"]

CanStartCheckAlways(inProgress) == TRUE

\* checkForNewOffers line 27: the guard against overlapping checks
CanStartCheck(inProgress) == ~inProgress


startCheckIntervalKeepsOld(ci, armed) == [checkInterval |-> TRUE, armedTimers |-> armed + 1]

\* startCheckInterval: clear the existing interval if any, arm a new one
startCheckInterval(ci, armed) ==
  [checkInterval |-> TRUE, armedTimers |-> (IF ci THEN armed - 1 ELSE armed) + 1]

\* what the caller of checkForNewOffers does when the call returns: start() and
\* the configChanged handler call startCheckInterval(), the timer callback ends
AfterCheck(caller, ci, armed) ==
  IF caller \in {"startup", "handler"} THEN startCheckInterval(ci, armed)
  ELSE [checkInterval |-> ci, armedTimers |-> armed]

Returned(caller) ==
  /\ checkInterval' = AfterCheck(caller, checkInterval, armedTimers).checkInterval
  /\ armedTimers' = AfterCheck(caller, checkInterval, armedTimers).armedTimers
  /\ phase' = IF caller = "startup" THEN "listening" ELSE phase

\* the message logger.error wrote for a cycle: line 54 for an invalid
\* notification configuration, line 106 for an error the catch block caught
ErrorLogged(outcome, threw) == IF outcome = "invalidConfig" THEN "config" ELSE threw

\* the history record of a cycle that ends.  repeat: the cycle fetched the
\* aggregation result that the cycle before it fetched; prevOutcome: how the
\* cycle before it ended; retry: the offer whose send failed most recently and
\* that has not been tracked since
Summary(c, outcome, failed, endSeen) ==
  [outcome |-> outcome, fetched |-> c.fetched, allOffers |-> c.allOffers,
   reachable |-> c.reachable, newOffers |-> c.newOffers, sent |-> c.sent,
   failed |-> failed, startSeen |-> c.startSeen, startSrc |-> c.startSrc,
   startNow |-> c.startNow, atFetch |-> c.atFetch, endSeen |-> endSeen,
   repeat |-> c.repeat, prevOutcome |-> c.prevOutcome,
   retry |-> IF outcome = "sendFailed" THEN failed
             ELSE IF c.retry \in DOMAIN endSeen THEN 0 ELSE c.retry,
   answers |-> c.answers, saves |-> c.saves, writeFailed |-> c.writeFailed,
   logged |-> ErrorLogged(outcome, c.threw)]

noFinallyBlock(inProgress) == inProgress

\* lines 37-39: the finally block of checkForNewOffers clears the flag
finallyBlock(inProgress) == FALSE

\* the cycle of slot s ends with slot contents c: the finally block of
\* checkForNewOffers runs and the caller continues
EndCheck(s, c, outcome, failed, endSeen) ==
  /\ isCheckInProgress' = finallyBlock(isCheckInProgress)
  /\ cyc' = [cyc EXCEPT ![s] = IdleSlot]
  /\ Returned(c.caller)
  /\ last' = Summary(c, outcome, failed, endSeen)

FirstWithId(offers, id) == offers[CHOOSE k \in 1..Len(offers) :
                              offers[k].id = id /\ \A j \in 1..(k - 1) : offers[j].id /= id]

Recorded(seen, offers, rec) ==
  [id \in DOMAIN rec \cup SeqIds(offers) |->
     IF id \in SeqIds(offers)
     THEN [expiresAt |-> seen[id].expiresAt, sentAt |-> seen[id].sentAt,
           coordinator |-> FirstWithId(offers, id).coordinator]
     ELSE rec[id]]

catchErrorTracks(seen, newOffers, t) == addOffersMem(seen, newOffers, t)

\* lines 105-107: the catch block logs the error and leaves the store as it is
catchError(seen, newOffers, t) == seen

\* lines 84-99 from the top of loop iteration c.i: the abort check, the call of
\* sendNotification (which throws at once when the client is not ready), and
\* after the last iteration addOffers up to its await of save
Proceed(s, c) ==
  IF c.i > Len(c.newOffers)
  THEN /\ seenOffers' = addOffersMem(seenOffers, c.newOffers, now)
       /\ cyc' = [cyc EXCEPT ![s] = [c EXCEPT !.pc = "addSave", !.buf = Serialize(seenOffers'),
                                               !.saves = c.saves + 1]]
       /\ recMem' = Recorded(seenOffers', c.newOffers, recMem)
       /\ UNCHANGED <<isCheckInProgress, timerVars, phase, last>>
  ELSE IF shouldAbortCheck
  THEN /\ EndCheck(s, c, "aborted", 0, seenOffers)
       /\ UNCHANGED <<seenOffers, recMem>>
  ELSE IF sendThrowsNotReady(isReady)
  THEN /\ seenOffers' = catchError(seenOffers, c.newOffers, now)
       /\ EndCheck(s, [c EXCEPT !.threw = "notReady"], "sendFailed", c.newOffers[c.i].id, seenOffers')
       /\ UNCHANGED recMem
  ELSE /\ cyc' = [cyc EXCEPT ![s] = [c EXCEPT !.pc = "sending"]]
       /\ UNCHANGED <<seenOffers, recMem, isCheckInProgress, timerVars, phase, last>>

FreeSlot(s) == cyc[s].pc = "idle" /\ \A r \in Slots : r < s => cyc[r].pc /= "idle"

\* checkForNewOffers called by caller, up to its first await of I/O; valid is
\* the result of validateNotificationConfig at that moment and group the
\* value of config.WHATSAPP_GROUP_NAME
CheckForNewOffers(caller, valid, group) ==
  \E s \in Slots :
    /\ FreeSlot(s)
    /\ IF ~CanStartCheck(isCheckInProgress)
       THEN /\ Returned(caller)
            /\ cyc' = [r \in Slots |-> IF cyc[r].pc = "idle" THEN cyc[r]
                                       ELSE [cyc[r] EXCEPT !.overlapped = TRUE]]
            /\ UNCHANGED <<seenOffers, isCheckInProgress, shouldAbortCheck, last>>
       ELSE LET c == [IdleSlot EXCEPT !.caller = caller, !.startSeen = seenOffers, !.startNow = now,
                                      !.startSrc = [id \in DOMAIN seenOffers |-> recMem[id].coordinator],
                                      !.prevAgg = [fetched |-> last.fetched, allOffers |-> last.allOffers,
                                                   reachable |-> last.reachable],
                                      !.prevOutcome = last.outcome, !.retry = last.retry,
                                      !.startGroup = group]
                evict == cleanupExpiredOffers(seenOffers, now)
                cleaned == evict.seen
            IN /\ shouldAbortCheck' = FALSE
               /\ IF ~valid
                  THEN /\ EndCheck(s, c, "invalidConfig", 0, seenOffers)
                       /\ UNCHANGED seenOffers
                  ELSE /\ seenOffers' = cleaned
                       /\ isCheckInProgress' = TRUE
                       /\ cyc' = [cyc EXCEPT ![s] =
                                   IF evict.saves
                                   THEN [c EXCEPT !.pc = "cleanupSave", !.buf = Serialize(cleaned),
                                                  !.saves = 1, !.evicted = evict.returns]
                                   ELSE [c EXCEPT !.pc = "fetching", !.evicted = evict.returns]]
                       /\ last' = NoCycle
                       /\ phase' = IF caller = "startup" THEN "startupCheck" ELSE phase
                       /\ UNCHANGED timerVars
    /\ UNCHANGED <<disk, now, isReady, recMem, recDisk, deleteCalls, deleted, initialized>>

\* the interval callback
TimerTick ==
  /\ phase /= "dead"
  /\ armedTimers > 0
  /\ CheckForNewOffers("timer", notifValid, WHATSAPP_GROUP_NAME)
  /\ UNCHANGED configVars

\* cleanupExpiredOffers' save returns (line 59), then lines 61-70
CleanupSaveDone(s, kind) ==
  /\ cyc[s].pc = "cleanupSave"
  /\ LET w == save(kind, disk, cyc[s].buf)
         c == [cyc[s] EXCEPT !.writeFailed = (kind /= "ok")]
     IN
       /\ disk' = w.disk
       /\ recDisk' = IF w.ok THEN recMem ELSE recDisk
       /\ IF ~w.ok
          THEN EndCheck(s, [c EXCEPT !.threw = "write"], "cleanupSaveFailed", 0, seenOffers)
          ELSE IF shouldAbortCheck
          THEN EndCheck(s, c, "aborted", 0, seenOffers)
          ELSE /\ cyc' = [cyc EXCEPT ![s] = [c EXCEPT !.pc = "fetching"]]
               /\ UNCHANGED <<isCheckInProgress, timerVars, phase, last>>
  /\ UNCHANGED <<seenOffers, now, isReady, configVars, shouldAbortCheck, recMem, deleteCalls, deleted, initialized>>

\* robosatsClient.getOffers() returns (line 70), then lines 72-92.  The cycle
\* works on the merged list of offers (every listed offer is in a target
\* currency); the set of reachable coordinators is not read by index.js and is
\* kept in the slot as history only.
FetchDone(s, resp) ==
  /\ cyc[s].pc = "fetching"
  /\   /\ LET book == getOrderBook(resp)
              c1 == [cyc[s] EXCEPT !.allOffers = book.offers,
                                   !.reachable = book.reachableCoordinators,
                                   !.fetched = TRUE, !.atFetch = seenOffers, !.answers = resp,
                                   !.repeat = /\ cyc[s].prevAgg.fetched
                                              /\ cyc[s].prevAgg.allOffers = book.offers
                                              /\ cyc[s].prevAgg.reachable = book.reachableCoordinators,
                                   !.prevAgg = IdleSlot.prevAgg]
              c2 == [c1 EXCEPT !.newOffers = getNewOffers(seenOffers, book.offers), !.i = 1]
          IN IF shouldAbortCheck
             THEN EndCheck(s, c1, "aborted", 0, seenOffers) /\ UNCHANGED <<seenOffers, recMem>>
             ELSE IF c2.newOffers = <<>>
             THEN EndCheck(s, c2, "done", 0, seenOffers) /\ UNCHANGED <<seenOffers, recMem>>
             ELSE Proceed(s, c2)
  /\ UNCHANGED <<disk, now, isReady, configVars, shouldAbortCheck, recDisk, deleteCalls, deleted, initialized>>

\* whatsappClient.sendNotification returns or throws (line 92).  sendToGroup
\* looks the group up by config.WHATSAPP_GROUP_NAME after its await of
\* getChats(), so the message goes to the group configured at that moment.
SendDone(s) ==
  /\ cyc[s].pc = "sending"
  /\ LET c == cyc[s]
         offer == c.newOffers[c.i]
     IN \E ok \in BOOLEAN :
          IF ~ok
          THEN /\ seenOffers' = catchError(seenOffers, c.newOffers, now)
               /\ EndCheck(s, [c EXCEPT !.threw = "send"], "sendFailed", offer.id, seenOffers')
               /\ UNCHANGED recMem
          ELSE LET c1 == [c EXCEPT !.sent = Append(c.sent, [offer |-> offer, handle |-> Len(c.sent) + 1,
                                                          to |-> WHATSAPP_GROUP_NAME])]
               IN IF Len(c.newOffers) > 1
                  THEN /\ cyc' = [cyc EXCEPT ![s] = [c1 EXCEPT !.pc = "delay"]]
                       /\ UNCHANGED <<seenOffers, recMem, isCheckInProgress, timerVars, phase, last>>
                  ELSE Proceed(s, [c1 EXCEPT !.i = c.i + 1])
  /\ UNCHANGED <<disk, now, isReady, configVars, shouldAbortCheck, recDisk, deleteCalls, deleted, initialized>>

\* the pause between two messages ends (line 95), then the next iteration
DelayDone(s) ==
  /\ cyc[s].pc = "delay"
  /\ Proceed(s, [cyc[s] EXCEPT !.i = cyc[s].i + 1])
  /\ UNCHANGED <<disk, now, isReady, configVars, shouldAbortCheck, recDisk, deleteCalls, deleted, initialized>>

\* addOffers' save returns or throws (line 99)
AddSaveDone(s, kind) ==
  /\ cyc[s].pc = "addSave"
  /\ LET w == save(kind, disk, cyc[s].buf)
         c == [cyc[s] EXCEPT !.writeFailed = @ \/ (kind /= "ok"),
                             !.threw = IF w.ok THEN "none" ELSE "write"]
     IN
       /\ disk' = w.disk
       /\ recDisk' = IF w.ok THEN recMem ELSE recDisk
       /\ EndCheck(s, c, IF w.ok THEN "done" ELSE "saveFailed", 0, seenOffers)
  /\ UNCHANGED <<seenOffers, now, isReady, configVars, shouldAbortCheck, recMem, deleteCalls, deleted, initialized>>


stopCheckIntervalAlwaysAborts(ci, armed, inProgress, abort) ==
  IF ci
  THEN [checkInterval |-> FALSE, armedTimers |-> armed - 1, shouldAbortCheck |-> TRUE]
  ELSE [checkInterval |-> ci, armedTimers |-> armed, shouldAbortCheck |-> abort]

\* stopCheckInterval
stopCheckInterval(ci, armed, inProgress, abort) ==
  IF ci
  THEN [checkInterval |-> FALSE, armedTimers |-> armed - 1,
        shouldAbortCheck |-> IF inProgress THEN TRUE ELSE abort]
  ELSE [checkInterval |-> ci, armedTimers |-> armed, shouldAbortCheck |-> abort]

\* a POST /api/settings whose saveConfig or reloadConfig throws.  how =
\* "write": fs.writeFileSync fails in saveConfig.  how = "reload": the file is
\* written, loadConfig copies it into process.env, and reloadConfig throws in
\* parseCheckInterval or parseTargetCurrencies, after it assigned the
\* notification settings and before it assigns BOT_ENABLED and emits
\* configChanged; validateNotificationConfig reads process.env.
FailureKinds == {"write", "reload"}
SettingsUpdateFails(en, valid, group, how) ==
  /\ phase /= "dead"
  /\ failedUpdate' = [failed |-> TRUE,
                      before |-> <<BOT_ENABLED, IS_FIRST_RUN, notifValid, WHATSAPP_GROUP_NAME,
                                   configFile>>]
  /\ IF how = "write"
     THEN UNCHANGED <<BOT_ENABLED, IS_FIRST_RUN, notifValid, WHATSAPP_GROUP_NAME, configFile>>
     ELSE /\ configFile' = ConfigFile(en, valid, group, "bad")
          /\ IS_FIRST_RUN' = FALSE
          /\ WHATSAPP_GROUP_NAME' = group
          /\ notifValid' = valid
          /\ UNCHANGED BOT_ENABLED
  /\ UNCHANGED <<storeVars, now, isReady, timerVars, isCheckInProgress, shouldAbortCheck,
                 phase, cyc, histVars>>

\* a settings update (saveConfig, reloadConfig) and the configChanged handler
\* of lines 188-207 up to its first await of I/O
ConfigChanged(en, valid, group) ==
  /\ phase /= "dead"
  /\ BOT_ENABLED' = en
  /\ IS_FIRST_RUN' = FALSE
  /\ notifValid' = valid
  /\ WHATSAPP_GROUP_NAME' = group
  /\ configFile' = ConfigFile(en, valid, group, "ok")
  /\ failedUpdate' = NoFailedUpdate
  /\ IF phase = "listening" /\ en
     THEN CheckForNewOffers("handler", valid, group)
     ELSE IF phase = "listening" /\ ~en /\ checkInterval
     THEN LET r == stopCheckInterval(checkInterval, armedTimers, isCheckInProgress, shouldAbortCheck)
          IN /\ checkInterval' = r.checkInterval
             /\ armedTimers' = r.armedTimers
             /\ shouldAbortCheck' = r.shouldAbortCheck
             /\ UNCHANGED <<storeVars, now, isReady, isCheckInProgress, phase, cyc, histVars>>
     ELSE UNCHANGED <<storeVars, now, isReady, timerVars, isCheckInProgress, shouldAbortCheck,
                      phase, cyc, histVars>>

\* offerTracker.initialize() in start() (line 156): an error it throws is
\* fatal (process.exit(1))
Boot(kind1, kind2) ==
  /\ phase = "boot"
  /\ LET r == initialize(disk, now, kind1, kind2) IN
       /\ seenOffers' = r.seen
       /\ disk' = r.disk
       /\ phase' = IF r.threw THEN "dead" ELSE "waitReady"
       /\ initialized' = [kind |-> disk.kind, saves |-> r.saves, threw |-> r.threw]
  /\ UNCHANGED <<now, isReady, configVars, timerVars, isCheckInProgress, shouldAbortCheck,
                 cyc, last, recMem, recDisk, deleteCalls, deleted>>

startsChecksWhenEnabled(enabled, firstRun) == enabled

\* start() line 172: checks start if the bot is enabled and not on a first run
startsChecks(enabled, firstRun) == enabled /\ ~firstRun

\* start() lines 160-185 once WhatsApp is ready
StartReady ==
  /\ phase = "waitReady"
  /\ isReady
  /\ IF startsChecks(BOT_ENABLED, IS_FIRST_RUN)
     THEN CheckForNewOffers("startup", notifValid, WHATSAPP_GROUP_NAME)
     ELSE /\ phase' = "listening"
          /\ UNCHANGED <<storeVars, now, isReady, timerVars, isCheckInProgress, shouldAbortCheck,
                         cyc, histVars>>
  /\ UNCHANGED configVars

\* the WhatsApp client's 'ready' and 'disconnected' events
WhatsAppReady ==
  /\ phase \in {"waitReady", "startupCheck", "listening"}
  /\ ~isReady
  /\ isReady' = TRUE
  /\ UNCHANGED <<storeVars, now, configVars, timerVars, isCheckInProgress, shouldAbortCheck,
                 phase, cyc, histVars>>

WhatsAppDisconnected ==
  /\ phase \in {"waitReady", "startupCheck", "listening"}
  /\ isReady
  /\ isReady' = FALSE
  /\ UNCHANGED <<storeVars, now, configVars, timerVars, isCheckInProgress, shouldAbortCheck,
                 phase, cyc, histVars>>

\* a call of whatsappClient.deleteMessage(handle) from outside a check cycle
Handles == 1..2
DeleteMessage(handle, outcome) ==
  /\ phase \in {"waitReady", "startupCheck", "listening"}
  /\ deleted' = [handle |-> handle, result |-> deleteMessage(isReady, outcome)]
  /\ UNCHANGED <<storeVars, now, isReady, configVars, timerVars, isCheckInProgress,
                 shouldAbortCheck, phase, cyc, last, recMem, recDisk, deleteCalls, initialized>>

\* time passes
AdvanceClock ==
  /\ now < MaxTime
  /\ now' = now + 1
  /\ UNCHANGED <<storeVars, isReady, configVars, timerVars, isCheckInProgress, shouldAbortCheck,
                 phase, cyc, histVars>>

\* the process is restarted: module state is constructed anew, the file stays
Restart ==
  /\ phase /= "boot"
  /\ phase' = "boot"
  /\ seenOffers' = EmptyMap
  /\ isReady' = FALSE
  /\ checkInterval' = FALSE
  /\ armedTimers' = 0
  /\ isCheckInProgress' = FALSE
  /\ shouldAbortCheck' = FALSE
  /\ cyc' = [s \in Slots |-> IdleSlot]
  /\ last' = NoCycle
  /\ recMem' = recDisk
  /\ initialized' = NotInitialized
  /\ UNCHANGED <<disk, now, configVars, recDisk, deleteCalls, deleted>>

InitAny ==
  /\ seenOffers = EmptyMap
  /\ disk = NoFile
  /\ now = 1
  /\ isReady = FALSE
  /\ checkInterval = FALSE
  /\ armedTimers = 0
  /\ isCheckInProgress = FALSE
  /\ shouldAbortCheck = FALSE
  /\ phase = "boot"
  /\ cyc = [s \in Slots |-> IdleSlot]
  /\ last = NoCycle
  /\ recMem = EmptyMap
  /\ recDisk = EmptyMap
  /\ deleteCalls = 0
  /\ deleted = NoDelete
  /\ initialized = NotInitialized

\* ---------------------------------------------------------------------------
\* Spec: the check cycle under a fixed, valid configuration with the bot
\* enabled; the coordinators list offers 1 and 2, and a coordinator that fails
\* fails with an error (SpecAgg has the other way to fail).  Sends and writes
\* can fail; the notifier stays connected (SpecNotify has the disconnections).
AggResponses == {r \in AllResponses : \A c \in Coordinators : r[c].ids \subseteq {1, 2}}
CoreResponses == {r \in AggResponses : \A c \in Coordinators : r[c].kind /= "notArray"}
CoreWrites == {"ok", "failed"}

Init ==
  /\ InitAny
  /\ BOT_ENABLED = TRUE
  /\ IS_FIRST_RUN = FALSE
  /\ notifValid = TRUE
  /\ WHATSAPP_GROUP_NAME = "g1"
  /\ configFile = LoadedFrom(IS_FIRST_RUN, BOT_ENABLED, notifValid, WHATSAPP_GROUP_NAME)
  /\ failedUpdate = NoFailedUpdate

Next ==
  \/ \E kind1 \in CoreWrites, kind2 \in CoreWrites : Boot(kind1, kind2)
  \/ StartReady
  \/ TimerTick
  \/ \E s \in Slots, kind \in CoreWrites : CleanupSaveDone(s, kind)
  \/ \E s \in Slots, resp \in CoreResponses : FetchDone(s, resp)
  \/ \E s \in Slots : SendDone(s)
  \/ \E s \in Slots : DelayDone(s)
  \/ \E s \in Slots, kind \in CoreWrites : AddSaveDone(s, kind)
  \/ WhatsAppReady
  \/ AdvanceClock

Spec == Init /\ [][Next]_vars

TypeOK ==
  /\ now \in 1..MaxTime
  /\ armedTimers \in 0..2
  /\ phase \in {"boot", "waitReady", "startupCheck", "listening", "dead"}
  /\ DOMAIN seenOffers \subseteq OfferIds
  /\ \A s \in Slots : cyc[s].pc \in {"idle", "cleanupSave", "fetching", "sending", "delay", "addSave"}


\* ---------------------------------------------------------------------------
\* SpecSched: the scheduler: settings updates that enable, disable and restart
\* the checks while cycles run; only coordinator "a" answers.
SchedResponses == {r \in CoreResponses : r["b"].kind = "error" /\ r["a"].kind = "array"}
SchedWrites == {"ok"}

InitSched ==
  /\ InitAny
  /\ BOT_ENABLED \in BOOLEAN
  /\ IS_FIRST_RUN \in BOOLEAN
  /\ notifValid \in BOOLEAN
  /\ WHATSAPP_GROUP_NAME = "g1"
  /\ configFile = LoadedFrom(IS_FIRST_RUN, BOT_ENABLED, notifValid, WHATSAPP_GROUP_NAME)
  /\ failedUpdate = NoFailedUpdate

NextSched ==
  \/ \E kind1 \in SchedWrites, kind2 \in SchedWrites : Boot(kind1, kind2)
  \/ StartReady
  \/ TimerTick
  \/ \E s \in Slots, kind \in SchedWrites : CleanupSaveDone(s, kind)
  \/ \E s \in Slots, resp \in SchedResponses : FetchDone(s, resp)
  \/ \E s \in Slots : SendDone(s)
  \/ \E s \in Slots : DelayDone(s)
  \/ \E s \in Slots, kind \in SchedWrites : AddSaveDone(s, kind)
  \/ \E en \in BOOLEAN, valid \in BOOLEAN : ConfigChanged(en, valid, WHATSAPP_GROUP_NAME)
  \/ WhatsAppReady
  \/ AdvanceClock

SpecSched == InitSched /\ [][NextSched]_vars

\* ---------------------------------------------------------------------------
\* SpecRestart: the check cycle with process restarts and failing writes;
\* coordinator "a" lists offers 1 and 3.
RestartResponses ==
  {r \in AllResponses : r["b"].kind = "error" /\ r["a"].kind = "array" /\ r["a"].ids \subseteq {1, 3}}

NextRestart ==
  \/ \E kind1 \in WriteKinds, kind2 \in WriteKinds : Boot(kind1, kind2)
  \/ StartReady
  \/ TimerTick
  \/ \E s \in Slots, kind \in WriteKinds : CleanupSaveDone(s, kind)
  \/ \E s \in Slots, resp \in RestartResponses : FetchDone(s, resp)
  \/ \E s \in Slots : SendDone(s)
  \/ \E s \in Slots : DelayDone(s)
  \/ \E s \in Slots, kind \in WriteKinds : AddSaveDone(s, kind)
  \/ WhatsAppReady
  \/ AdvanceClock
  \/ Restart

SpecRestart == Init /\ [][NextRestart]_vars

\* ---------------------------------------------------------------------------
\* SpecNotify: the notifier disconnects and reconnects while cycles run;
\* coordinator "b" is down and every write succeeds.
NotifyResponses == {r \in CoreResponses : r["b"].kind = "error"}
NotifyWrites == {"ok"}

NextNotify ==
  \/ \E kind1 \in NotifyWrites, kind2 \in NotifyWrites : Boot(kind1, kind2)
  \/ StartReady
  \/ TimerTick
  \/ \E s \in Slots, kind \in NotifyWrites : CleanupSaveDone(s, kind)
  \/ \E s \in Slots, resp \in NotifyResponses : FetchDone(s, resp)
  \/ \E s \in Slots : SendDone(s)
  \/ \E s \in Slots : DelayDone(s)
  \/ \E s \in Slots, kind \in NotifyWrites : AddSaveDone(s, kind)
  \/ WhatsAppReady
  \/ WhatsAppDisconnected
  \/ AdvanceClock

SpecNotify == Init /\ [][NextNotify]_vars

\* ---------------------------------------------------------------------------
\* SpecAgg: the aggregation: every combination of coordinators that fail with
\* an error, answer with something that is not an array, or answer with a
\* listing (the empty one included); every write succeeds.
AggWrites == {"ok"}

NextAgg ==
  \/ \E kind1 \in AggWrites, kind2 \in AggWrites : Boot(kind1, kind2)
  \/ StartReady
  \/ TimerTick
  \/ \E s \in Slots, kind \in AggWrites : CleanupSaveDone(s, kind)
  \/ \E s \in Slots, resp \in AggResponses : FetchDone(s, resp)
  \/ \E s \in Slots : SendDone(s)
  \/ \E s \in Slots : DelayDone(s)
  \/ \E s \in Slots, kind \in AggWrites : AddSaveDone(s, kind)
  \/ WhatsAppReady
  \/ AdvanceClock

SpecAgg == Init /\ [][NextAgg]_vars

\* ---------------------------------------------------------------------------
\* SpecConfig: the settings are saved again and again with another group name
\* while the bot stays enabled; coordinator "a" answers, every write succeeds.
ConfigResponses == SchedResponses
ConfigWrites == {"ok"}

NextConfig ==
  \/ \E kind1 \in ConfigWrites, kind2 \in ConfigWrites : Boot(kind1, kind2)
  \/ StartReady
  \/ TimerTick
  \/ \E s \in Slots, kind \in ConfigWrites : CleanupSaveDone(s, kind)
  \/ \E s \in Slots, resp \in ConfigResponses : FetchDone(s, resp)
  \/ \E s \in Slots : SendDone(s)
  \/ \E s \in Slots : DelayDone(s)
  \/ \E s \in Slots, kind \in ConfigWrites : AddSaveDone(s, kind)
  \/ \E group \in Groups : ConfigChanged(TRUE, TRUE, group)
  \/ WhatsAppReady
  \/ AdvanceClock

SpecConfig == Init /\ [][NextConfig]_vars

\* ---------------------------------------------------------------------------
\* SpecStore: the bot starts on a file left by an older version (or on no
\* file, or on one that cannot be read); the writes of initialize() can fail;
\* coordinator "a" lists offers 1 and 2 or nothing.
FileIds == {1, 2}
ArrayFiles == {ArrayFile(ids) : ids \in UNION {[1..n -> FileIds] : n \in 0..MaxFileLen}}
TimestampFiles ==
  {TimestampFile(stamps) : stamps \in UNION {[S -> 1..(MaxTime + 1)] : S \in SUBSET FileIds}}
StoreFiles == ArrayFiles \cup TimestampFiles \cup {NoFile, BadFile}
StoreResponses == {r \in SchedResponses : r["a"].ids \in {{}, {1, 2}}}
StoreWrites == {"ok"}

\* the history of an offer that a file of an older version lists
Unrecorded(file) ==
  [id \in DOMAIN Parsed(file, 0) |-> [expiresAt |-> Null, sentAt |-> Null, coordinator |-> "none"]]

InitStore ==
  /\ seenOffers = EmptyMap
  /\ disk \in StoreFiles
  /\ now = 1
  /\ isReady = FALSE
  /\ BOT_ENABLED = TRUE
  /\ IS_FIRST_RUN = FALSE
  /\ notifValid = TRUE
  /\ WHATSAPP_GROUP_NAME = "g1"
  /\ configFile = LoadedFrom(IS_FIRST_RUN, BOT_ENABLED, notifValid, WHATSAPP_GROUP_NAME)
  /\ failedUpdate = NoFailedUpdate
  /\ checkInterval = FALSE
  /\ armedTimers = 0
  /\ isCheckInProgress = FALSE
  /\ shouldAbortCheck = FALSE
  /\ phase = "boot"
  /\ cyc = [s \in Slots |-> IdleSlot]
  /\ last = NoCycle
  /\ recMem = Unrecorded(disk)
  /\ recDisk = Unrecorded(disk)
  /\ deleteCalls = 0
  /\ deleted = NoDelete
  /\ initialized = NotInitialized

NextStore ==
  \/ \E kind1 \in WriteKinds, kind2 \in WriteKinds : Boot(kind1, kind2)
  \/ StartReady
  \/ TimerTick
  \/ \E s \in Slots, kind \in StoreWrites : CleanupSaveDone(s, kind)
  \/ \E s \in Slots, resp \in StoreResponses : FetchDone(s, resp)
  \/ \E s \in Slots : SendDone(s)
  \/ \E s \in Slots : DelayDone(s)
  \/ \E s \in Slots, kind \in StoreWrites : AddSaveDone(s, kind)
  \/ WhatsAppReady
  \/ AdvanceClock

SpecStore == InitStore /\ [][NextStore]_vars

\* ---------------------------------------------------------------------------
\* SpecLive: the scheduler keeps running cycles: the interval callback fires
\* again and again and every awaited operation of a cycle returns; coordinator
\* "a" lists offers 1 and 3, every write succeeds.
LiveResponses == RestartResponses
LiveWrites == {"ok"}

NextLive ==
  \/ \E kind1 \in LiveWrites, kind2 \in LiveWrites : Boot(kind1, kind2)
  \/ StartReady
  \/ TimerTick
  \/ \E s \in Slots, kind \in LiveWrites : CleanupSaveDone(s, kind)
  \/ \E s \in Slots, resp \in LiveResponses : FetchDone(s, resp)
  \/ \E s \in Slots : SendDone(s)
  \/ \E s \in Slots : DelayDone(s)
  \/ \E s \in Slots, kind \in LiveWrites : AddSaveDone(s, kind)
  \/ WhatsAppReady
  \/ AdvanceClock

\* setInterval keeps calling the callback, and no awaited promise stays
\* pending for ever
CyclesKeepRunning ==
  /\ WF_vars(\E kind1 \in LiveWrites, kind2 \in LiveWrites : Boot(kind1, kind2))
  /\ WF_vars(WhatsAppReady)
  /\ WF_vars(StartReady)
  /\ WF_vars(TimerTick)
  /\ \A s \in Slots :
       /\ WF_vars(\E kind \in LiveWrites : CleanupSaveDone(s, kind))
       /\ WF_vars(\E resp \in LiveResponses : FetchDone(s, resp))
       /\ WF_vars(SendDone(s))
       /\ WF_vars(DelayDone(s))
       /\ WF_vars(\E kind \in LiveWrites : AddSaveDone(s, kind))

SpecLive == Init /\ [][NextLive]_vars /\ CyclesKeepRunning

\* ---------------------------------------------------------------------------
\* SpecDelete: messages are deleted through the notifier while it connects
\* and disconnects and cycles run.
NextDelete ==
  \/ \E kind1 \in NotifyWrites, kind2 \in NotifyWrites : Boot(kind1, kind2)
  \/ StartReady
  \/ TimerTick
  \/ \E s \in Slots, kind \in NotifyWrites : CleanupSaveDone(s, kind)
  \/ \E s \in Slots, resp \in NotifyResponses : FetchDone(s, resp)
  \/ \E s \in Slots : SendDone(s)
  \/ \E s \in Slots : DelayDone(s)
  \/ \E s \in Slots, kind \in NotifyWrites : AddSaveDone(s, kind)
  \/ WhatsAppReady
  \/ WhatsAppDisconnected
  \/ AdvanceClock
  \/ \E handle \in Handles, outcome \in DeleteOutcomes : DeleteMessage(handle, outcome)

SpecDelete == Init /\ [][NextDelete]_vars

\* ---------------------------------------------------------------------------
\* SpecTerm: cycles that end in every way: settings updates disable the bot
\* or make the notification configuration invalid while cycles run, sends and
\* writes fail; coordinator "a" lists offers 1 and 2; every awaited operation
\* of a cycle returns.
TermResponses == {r \in SchedResponses : r["a"].ids = {1, 2}}
TermUpdates == {[enabled |-> FALSE, valid |-> TRUE], [enabled |-> TRUE, valid |-> FALSE]}
TermWrites == {"ok", "failed"}

\* the awaited operation of the cycle of slot s returns or throws
AwaitReturns(s) ==
  \/ \E kind \in TermWrites : CleanupSaveDone(s, kind)
  \/ \E resp \in TermResponses : FetchDone(s, resp)
  \/ SendDone(s)
  \/ DelayDone(s)
  \/ \E kind \in TermWrites : AddSaveDone(s, kind)

NextTerm ==
  \/ \E kind1 \in TermWrites, kind2 \in TermWrites : Boot(kind1, kind2)
  \/ StartReady
  \/ TimerTick
  \/ \E s \in Slots, kind \in TermWrites : CleanupSaveDone(s, kind)
  \/ \E s \in Slots, resp \in TermResponses : FetchDone(s, resp)
  \/ \E s \in Slots : SendDone(s)
  \/ \E s \in Slots : DelayDone(s)
  \/ \E s \in Slots, kind \in TermWrites : AddSaveDone(s, kind)
  \/ \E u \in TermUpdates : ConfigChanged(u.enabled, u.valid, WHATSAPP_GROUP_NAME)
  \/ WhatsAppReady
  \/ AdvanceClock

\* no awaited promise stays pending for ever
CallsReturn == WF_vars(\E s \in Slots : AwaitReturns(s))

SpecTerm == Init /\ [][NextTerm]_vars /\ CallsReturn

\* ---------------------------------------------------------------------------
\* SpecSettings: settings are posted while cycles run: updates that disable
\* the bot fail in saveConfig or in reloadConfig, updates that restore the
\* first settings apply; coordinator "a" lists offers 1 and 2, every write of
\* the store succeeds.
SettingsResponses == TermResponses
SettingsWrites == {"ok"}

NextSettings ==
  \/ \E kind1 \in SettingsWrites, kind2 \in SettingsWrites : Boot(kind1, kind2)
  \/ StartReady
  \/ TimerTick
  \/ \E s \in Slots, kind \in SettingsWrites : CleanupSaveDone(s, kind)
  \/ \E s \in Slots, resp \in SettingsResponses : FetchDone(s, resp)
  \/ \E s \in Slots : SendDone(s)
  \/ \E s \in Slots : DelayDone(s)
  \/ \E s \in Slots, kind \in SettingsWrites : AddSaveDone(s, kind)
  \/ ConfigChanged(TRUE, TRUE, "g1")
  \/ \E group \in Groups, how \in FailureKinds : SettingsUpdateFails(FALSE, TRUE, group, how)
  \/ WhatsAppReady
  \/ AdvanceClock

SpecSettings == Init /\ [][NextSettings]_vars

\* ---------------------------------------------------------------------------
\* C1: at most one cycle is in flight at any time; an invocation of
\* checkForNewOffers that arrives while a cycle is running starts no cycle,
\* and no cycle is started by the end of the running one (nothing is queued).
InFlight == {s \in Slots : cyc[s].pc /= "idle"}

C1_AtMostOneCycle ==
  /\ [](Cardinality(InFlight) <= 1 /\ (isCheckInProgress <=> InFlight /= {}))
  /\ [][InFlight /= {} => \A s \in Slots : cyc[s].pc = "idle" => cyc'[s].pc = "idle"]_vars

C1_Witness ==
  \E s \in Slots : cyc[s].pc /= "idle" /\ cyc[s].overlapped /\ cyc[s].caller = "handler"

\* ---------------------------------------------------------------------------
\* Properties of one cycle, stated on the history record of the cycle that
\* ended most recently.

SendsOf(sent, id) == Cardinality({k \in 1..Len(sent) : sent[k].offer.id = id})
ListedBy(offers, id) == {offers[k].coordinator : k \in {j \in 1..Len(offers) : offers[j].id = id}}
ExpiredAtStart(L, id) == LeqNow(L.startSeen[id].expiresAt, L.startNow)
\* the cycle fetched, every send succeeded and no abort was raised
AllSent(L) == L.fetched /\ L.outcome \in {"done", "saveFailed"}
\* the tracked offer is absent from the merged result and its source was reachable
AbsentReachable(L, id) ==
  L.fetched /\ id \notin SeqIds(L.allOffers) /\ L.startSrc[id] \in L.reachable

\* C2: within one cycle, a tracked record whose expiresAt has passed and whose
\* offer is absent from a reachable source is still in the store (so that its
\* notification can get a deletion attempt) when the cycle has the aggregation
\* result; expiry eviction does not run before that.
C2_EvictionNotBeforeInactive ==
  \A id \in DOMAIN last.startSeen :
    (AbsentReachable(last, id) /\ ExpiredAtStart(last, id)) => id \in DOMAIN last.atFetch

\* C3: in a cycle in which every send succeeds and no abort is raised, every
\* offer in the fetched result whose id is not tracked gets exactly one
\* notification and exactly one record.
C3_NewOfferNotifiedOnce ==
  \A id \in SeqIds(last.allOffers) :
    (AllSent(last) /\ id \notin DOMAIN last.atFetch)
    => (SendsOf(last.sent, id) = 1 /\ id \in DOMAIN last.endSeen)

\* C4: for every tracked offer absent from the merged result while its source
\* was reachable, the cycle attempts one deletion (when a message id is stored)
\* and removes the record.
C4_InactiveRemoved ==
  \A id \in DOMAIN last.startSeen :
    (AbsentReachable(last, id) /\ last.outcome = "done")
    => /\ id \notin DOMAIN last.endSeen
       /\ (last.startSeen[id].messageId /= Null => deleteCalls = 1)

\* C5: an untracked offer id reported by two different sources in one cycle
\* gets exactly one notification and exactly one record.
C5_DuplicateNotifiedOnce ==
  \A id \in SeqIds(last.allOffers) :
    (AllSent(last) /\ id \notin DOMAIN last.atFetch /\ Cardinality(ListedBy(last.allOffers, id)) = 2)
    => (SendsOf(last.sent, id) = 1 /\ id \in DOMAIN last.endSeen)

NoOp(L) == L.sent = <<>> /\ deleteCalls = 0 /\ L.endSeen = L.startSeen

C8_UnreachableOnlyExpires ==
  \A id \in DOMAIN last.startSeen :
    (last.fetched /\ last.startSrc[id] \notin last.reachable)
    => /\ deleteCalls = 0
       /\ (id \notin DOMAIN last.endSeen \/ last.endSeen[id] /= last.startSeen[id])
          => ExpiredAtStart(last, id)

C8_Witness ==
  \E id \in DOMAIN last.startSeen :
    /\ last.fetched
    /\ last.startSrc[id] \notin last.reachable
    /\ last.reachable /= {}
    /\ id \notin DOMAIN last.endSeen
    /\ \E other \in DOMAIN last.startSeen : other \in DOMAIN last.endSeen

\* C9: an offer whose send failed is not tracked when the cycle ends, and the
\* next cycle that lists it classifies it new again.
C9_FailedSendRetried ==
  /\ last.outcome = "sendFailed" => (last.failed \notin DOMAIN last.endSeen /\ last.retry = last.failed)
  /\ last.retry /= 0 => last.retry \notin DOMAIN seenOffers
  /\ \A s \in Slots :
       (cyc[s].pc \in {"sending", "delay", "addSave"} /\ cyc[s].retry \in SeqIds(cyc[s].allOffers))
       => cyc[s].retry \in SeqIds(cyc[s].newOffers)
  /\ (AllSent(last) /\ last.retry /= 0) => last.retry \notin SeqIds(last.allOffers)

C9_Witness ==
  \E s \in Slots :
    /\ cyc[s].pc = "sending"
    /\ cyc[s].prevOutcome = "sendFailed"
    /\ cyc[s].newOffers[cyc[s].i].id = cyc[s].retry

\* C10: after a successful send for a new offer, the record created for that
\* offer stores the message handle the notifier returned.
C10_RecordStoresHandle ==
  \A k \in 1..Len(last.sent) :
    (AllSent(last) /\ SendsOf(last.sent, last.sent[k].offer.id) = 1)
    => /\ last.sent[k].offer.id \in DOMAIN last.endSeen
       /\ last.endSeen[last.sent[k].offer.id].messageId = last.sent[k].handle


\* ---------------------------------------------------------------------------
\* C7: once an offer has been notified and recorded, it is not notified again
\* while its record is unexpired, across later cycles and across a restart.
\* A record whose expires_at did not parse counts as unexpired for the
\* fallback age after it was sent.
Unexpired(r, t) == IF r.expiresAt = NaN THEN t < r.sentAt + defaultMaxAge ELSE r.expiresAt > t

C7_NoDuplicateNotification ==
  [][\A s \in Slots :
       Len(cyc'[s].sent) > Len(cyc[s].sent)
       => LET id == cyc'[s].sent[Len(cyc'[s].sent)].offer.id
          IN ~(id \in DOMAIN recMem /\ Unexpired(recMem[id], now))]_vars

\* ---------------------------------------------------------------------------
\* Abort of a cycle in flight.
BotDisabled == BOT_ENABLED /\ ~BOT_ENABLED'
SchedulerStopped == checkInterval /\ ~checkInterval'
SendStarted(s) == cyc[s].pc /= "sending" /\ cyc'[s].pc = "sending"
\* a step boundary of the cycle in slot s is crossed with the abort flag raised
AbortObserved(s) ==
  /\ shouldAbortCheck
  /\ cyc'[s].pc /= cyc[s].pc
  /\ \/ cyc[s].pc \in {"cleanupSave", "fetching"}
     \/ cyc[s].pc = "delay" /\ cyc[s].i < Len(cyc[s].newOffers)

\* once the flag is raised the cycle starts no further send, and it ends at
\* the next step boundary it crosses
AbortHonoured ==
  \A s \in Slots :
    /\ (shouldAbortCheck /\ cyc[s].pc /= "idle") => ~SendStarted(s)
    /\ AbortObserved(s) => (cyc'[s].pc = "idle" /\ last'.outcome \in {"aborted", "cleanupSaveFailed"})

\* C11: whenever the bot is disabled while a cycle is in flight, the abort
\* flag is raised for that cycle; the cycle then starts no further send after
\* the call in progress and ends at its next step boundary.
C11_StopAbortsCycle ==
  /\ [][(BotDisabled /\ InFlight /= {}) => shouldAbortCheck']_vars
  /\ [][AbortHonoured]_vars

\* the same for the steps in which stopCheckInterval cancels the timer
C11_StopCheckIntervalAborts ==
  /\ [][(SchedulerStopped /\ InFlight /= {}) => shouldAbortCheck']_vars
  /\ [][AbortHonoured]_vars

C11_AbortedWitness ==
  /\ last.outcome = "aborted"
  /\ last.sent /= <<>>
  /\ Len(last.sent) < Len(last.newOffers)

\* C12: when an aborted cycle ends, every offer whose notification it sent is
\* tracked in the store and in the file, so the next cycle does not classify
\* it new.
C12_AbortKeepsSentTracked ==
  (last.outcome = "aborted" /\ InFlight = {})
  => \A k \in 1..Len(last.sent) :
       /\ last.sent[k].offer.id \in DOMAIN last.endSeen
       /\ last.sent[k].offer.id \in DOMAIN disk.data

\* ---------------------------------------------------------------------------
\* Failing saves.
SaveFailedOutcomes == {"saveFailed", "cleanupSaveFailed"}

\* C13: a failing write of the store is not swallowed: save() rejects, the
\* cycle ends in the step in which the write fails (no fetch and no send
\* follow a failed cleanup save), and the catch block logs the error.
C13_SaveFailurePropagates ==
  /\ \A s \in Slots : ~cyc[s].writeFailed
  /\ last.writeFailed => (last.outcome \in SaveFailedOutcomes /\ last.logged = "write")
  /\ last.outcome = "cleanupSaveFailed" => (~last.fetched /\ last.sent = <<>>)

C13_Witness ==
  /\ last.writeFailed
  /\ last.outcome = "saveFailed"
  /\ last.sent /= <<>>
  /\ last.logged = "write"
  /\ ~isCheckInProgress

\* a save of the cycle in slot s returns in this step and its write failed
SaveFailsNow(s) ==
  /\ cyc[s].pc \in {"cleanupSave", "addSave"}
  /\ cyc'[s].pc = "idle"
  /\ last'.outcome \in SaveFailedOutcomes
\* the save of initialize() fails in this step
BootSaveFailsNow == phase = "boot" /\ phase' = "dead" /\ disk.kind = "object"

\* C14: when a save fails, the file holds exactly what it held before the
\* save, never a partially written or truncated document, so that a later
\* load reads the previously saved state.
C14_SaveAtomic ==
  /\ [][\A s \in Slots : SaveFailsNow(s) => disk' = disk]_vars
  /\ [][BootSaveFailsNow => disk' = disk]_vars

\* C15: a cycle that changes the store calls save() exactly once, and no
\* cycle calls it more than once.
C15_OneSavePerCycle ==
  /\ last.saves <= 1
  /\ last.endSeen /= last.startSeen => last.saves = 1

\* ---------------------------------------------------------------------------
\* The aggregation, stated on what the coordinators answered to the fetch of
\* the cycle that ended most recently.
OffersFrom(offers, c) == {k \in 1..Len(offers) : offers[k].coordinator = c}
Succeeded(answers) == {c \in Coordinators : answers[c].kind = "array"}
\* the offers the coordinators that answered with an array returned, each
\* with the coordinator that returned it
ReturnedOffers(answers) == {<<id, c>> : id \in OfferIds, c \in Succeeded(answers)}
                      \cap {p \in OfferIds \X Coordinators : p[1] \in answers[p[2]].ids}
Merged(offers) == {<<offers[k].id, offers[k].coordinator>> : k \in 1..Len(offers)}

\* C16: a coordinator whose response is not an array is not in the reachable
\* set and contributes no offer.
C16_NotArrayUnreachable ==
  \A c \in Coordinators :
    (last.fetched /\ last.answers[c].kind = "notArray")
    => (c \notin last.reachable /\ OffersFrom(last.allOffers, c) = {})

C16_Witness ==
  /\ last.fetched
  /\ last.answers["a"].kind = "notArray"
  /\ last.answers["b"] = [kind |-> "array", ids |-> {}]
  /\ last.reachable = {"b"}

\* C17: whichever coordinators fail, the fetch returns: the merged result
\* holds exactly the offers the other coordinators returned, once each and
\* tagged with the coordinator that returned it, and the cycle goes on to
\* notify them.
C17_FailuresIsolated ==
  last.fetched
  => /\ Merged(last.allOffers) = ReturnedOffers(last.answers)
     /\ Len(last.allOffers) = Cardinality(ReturnedOffers(last.answers))
     /\ last.logged \in {"none", "notReady", "send", "write"}
     /\ last.outcome = "done" => \A p \in ReturnedOffers(last.answers) : p[1] \in DOMAIN last.endSeen

C17_Witness ==
  /\ last.fetched
  /\ last.answers["a"].kind = "error"
  /\ last.answers["b"] = [kind |-> "array", ids |-> {1}]
  /\ last.outcome = "done"
  /\ Len(last.sent) = 1
  /\ last.sent[1].offer.coordinator = "b"

\* C18: the reachable set is exactly the set of coordinators that answered
\* with an array, the ones that answered with an empty array included.
C18_ReachableExact ==
  last.fetched => last.reachable = Succeeded(last.answers)

C18_Witness ==
  /\ last.fetched
  /\ last.answers["a"] = [kind |-> "array", ids |-> {}]
  /\ last.answers["b"] = [kind |-> "array", ids |-> {1}]
  /\ last.reachable = {"a", "b"}

\* ---------------------------------------------------------------------------
\* Errors inside a cycle.
\* the cycle of slot s ends in this step
CycleEnds(s) == cyc[s].pc /= "idle" /\ cyc'[s].pc = "idle"
NoNewRecord(L) == \A id \in DOMAIN L.endSeen : id \in DOMAIN L.startSeen /\ L.endSeen[id] = L.startSeen[id]
\* the process is alive, the cycle is over and every armed timer is still armed
KeepsRunning == phase' /= "dead" /\ ~isCheckInProgress' /\ armedTimers' >= armedTimers

\* C19: while the notifier is not ready a cycle starts no send; the cycle that
\* comes to a send with the notifier not ready creates no record and ends
\* with the error logged, and the process and the timer keep running.
C19_NotReadySkipsSend ==
  /\ [][\A s \in Slots : ~isReady => ~SendStarted(s)]_vars
  /\ [][\A s \in Slots : (CycleEnds(s) /\ last'.logged = "notReady")
                          => (seenOffers' = seenOffers /\ last'.sent = cyc[s].sent /\ KeepsRunning)]_vars
  /\ [](last.logged = "notReady" => (last.outcome = "sendFailed" /\ NoNewRecord(last)))

C19_Witness ==
  /\ last.logged = "notReady"
  /\ last.newOffers /= <<>>
  /\ last.sent = <<>>
  /\ ~isReady
  /\ phase = "listening"
  /\ armedTimers = 1

SourceFailed(L) == L.fetched /\ \E c \in Coordinators : L.answers[c].kind /= "array"
SendThrew(L) == L.logged \in {"notReady", "send"}

\* C20: an error of a coordinator fetch or of a notification send stays
\* inside checkForNewOffers: the send error is caught and logged, the cycle
\* ends with the in-progress flag cleared, the process lives, the timer stays
\* armed, and the guard of checkForNewOffers lets the next tick start a cycle.
C20_ErrorsStayInCycle ==
  /\ [][\A s \in Slots : (CycleEnds(s) /\ (SendThrew(last') \/ SourceFailed(last'))) => KeepsRunning]_vars
  /\ [](last.outcome = "sendFailed" => SendThrew(last))
  /\ []((InFlight = {} /\ (SendThrew(last) \/ SourceFailed(last)))
         => (phase /= "dead" /\ CanStartCheck(isCheckInProgress)))

C20_Witness ==
  \E s \in Slots :
    /\ cyc[s].caller = "timer"
    /\ cyc[s].pc = "fetching"
    /\ cyc[s].prevOutcome = "sendFailed"
    /\ armedTimers = 1

\* ---------------------------------------------------------------------------
\* Settings updates.
\* a settings update arrives while the bot is and stays enabled and the timer
\* is armed: the handler takes its restart branch (lines 201-206)
Reconfigured ==
  /\ phase = "listening"
  /\ BOT_ENABLED /\ BOT_ENABLED'
  /\ checkInterval
  /\ configVars' /= configVars
CycleStarts(s) == cyc[s].pc = "idle" /\ cyc'[s].pc /= "idle"

\* C21: a settings update while the bot stays enabled acts as stop() followed
\* by start(): a cycle in flight is signalled to abort, one timer is armed
\* afterwards, and the update itself starts no cycle.
C21_ReconfigureIsStopStart ==
  [][Reconfigured => /\ \A s \in Slots : ~CycleStarts(s)
                     /\ InFlight /= {} => shouldAbortCheck'
                     /\ armedTimers' = 1]_vars

\* the part of C21 about the timer
C21_OneTimerAfterReconfigure == [][Reconfigured => armedTimers' = 1]_vars


\* Configuration read by a cycle.
\* C22: every message of a cycle goes to the notification target that was
\* configured when the cycle began, whatever settings update arrives while the
\* cycle is in flight.
C22_CycleKeepsItsConfig ==
  \A s \in Slots : \A k \in 1..Len(cyc[s].sent) : cyc[s].sent[k].to = cyc[s].startGroup

\* Loading the store.
Loads == phase = "boot" /\ phase' /= "boot"
Fresh(expiresAt) == [expiresAt |-> expiresAt, messageId |-> Null, sentAt |-> Null]

\* C23: loading a file that is a bare list of identifiers yields a store that
\* tracks exactly the identifiers of the list, each expiring 24 hours
\* (defaultMaxAge) after the time of the load.
C23_ArrayMigration ==
  [][(Loads /\ disk.kind = "array")
     => /\ DOMAIN seenOffers' = {disk.data[k] : k \in 1..Len(disk.data)}
        /\ \A id \in DOMAIN seenOffers' : seenOffers'[id] = Fresh(now + defaultMaxAge)]_vars

\* a list of two identifiers has been loaded
C23_Witness ==
  /\ initialized.kind = "array"
  /\ phase = "waitReady"
  /\ Cardinality(DOMAIN seenOffers) = 2

\* C24 as stated: loading a map of timestamps yields a record for every
\* identifier of the file, with the stored timestamp and no message id, and
\* writes the file exactly once when it migrated.
C24_EveryTimestampKept ==
  [][(Loads /\ disk.kind = "timestamps" /\ ~initialized'.threw)
     => /\ seenOffers' = [id \in DOMAIN disk.data |-> Fresh(disk.data[id])]
        /\ initialized'.saves = IF needsMigration(disk) THEN 1 ELSE 0]_vars

\* C24: loading a map of timestamps yields such a record for every identifier
\* whose timestamp is later than the time of the load and none for the others;
\* it writes the file once for the migration and once more exactly when it
\* dropped an identifier.
C24_LiveTimestampsKept ==
  [][(Loads /\ disk.kind = "timestamps" /\ ~initialized'.threw)
     => LET live == {id \in DOMAIN disk.data : disk.data[id] > now} IN
          /\ seenOffers' = [id \in live |-> Fresh(disk.data[id])]
          /\ initialized'.saves = (IF needsMigration(disk) THEN 1 ELSE 0)
                                  + (IF live /= DOMAIN disk.data THEN 1 ELSE 0)]_vars

\* a map with one timestamp that has passed and one that has not was loaded
C24_Witness ==
  /\ initialized.kind = "timestamps"
  /\ initialized.saves = 2
  /\ phase = "waitReady"
  /\ seenOffers /= EmptyMap

\* C25: when there is no file initialize() leaves an empty store and throws
\* nothing; when the file cannot be read or parsed initialize() throws.
C25_MissingFileOnly ==
  [][Loads => /\ disk.kind = "ENOENT"
                 => (seenOffers' = EmptyMap /\ ~initialized'.threw /\ phase' = "waitReady")
              /\ disk.kind = "bad" => (initialized'.threw /\ phase' = "dead")]_vars

\* initialize() met a file it could not read
C25_Witness == initialized.kind = "bad" /\ initialized.threw

\* Expiry of a tracked offer.
Tracked(L) == L.outcome \in {"done", "saveFailed"} /\ L.newOffers /= <<>>

\* C26: the expiresAt stored for a newly tracked offer is the offer's own
\* expires_at when that parses, and the time of tracking + 24 hours
\* (defaultMaxAge) when the offer has none or has one that does not parse.
C26_ExpiryResolved ==
  Tracked(last)
  => \A k \in 1..Len(last.newOffers) :
       LET offer == last.newOffers[k]
           stored == last.endSeen[offer.id]
       IN stored.expiresAt = IF offer.expires_at \in {Absent, Garbage}
                             THEN stored.sentAt + defaultMaxAge
                             ELSE offer.expires_at

\* Eviction.
Evicts(s) == CycleStarts(s) /\ cyc'[s].pc /= "idle"
ExpiredAt(seen, t) == {id \in DOMAIN seen : seen[id].expiresAt <= t}

\* C27: the eviction at the start of a cycle removes exactly the records with
\* expiresAt <= now, leaves the other records as they are, returns the number
\* of records it removed, and saves exactly when it removed a record.
C27_EvictExpired ==
  [][\A s \in Slots :
       Evicts(s)
       => LET removed == ExpiredAt(seenOffers, now) IN
            /\ seenOffers' = [id \in DOMAIN seenOffers \ removed |-> seenOffers[id]]
            /\ cyc'[s].evicted = Cardinality(removed)
            /\ (cyc'[s].pc = "cleanupSave") <=> (removed /= {})]_vars

\* the parts of C27 about the store and the save
C27_EvictsAndSaves ==
  [][\A s \in Slots :
       Evicts(s)
       => LET removed == ExpiredAt(seenOffers, now) IN
            /\ seenOffers' = [id \in DOMAIN seenOffers \ removed |-> seenOffers[id]]
            /\ (cyc'[s].pc = "cleanupSave") <=> (removed /= {})]_vars

\* Expiry in a running process.
\* the time at which a tracked record is to expire: the expiry the offer
\* supplied, or 24 hours (defaultMaxAge) after it was tracked
ExpiryTime(r) == IF r.expiresAt \in {NaN, Null} THEN r.sentAt + defaultMaxAge ELSE r.expiresAt
Due(id) == id \in DOMAIN seenOffers /\ ExpiryTime(seenOffers[id]) <= now

\* C28: while the scheduler keeps running cycles, a tracked record whose
\* expiry time has passed is eventually removed from the store.
C28_ExpiredEventuallyRemoved ==
  \A id \in OfferIds : Due(id) ~> (id \notin DOMAIN seenOffers)

\* the same for the records whose expiresAt is a number
C28_NumericExpiryRemoved ==
  \A id \in OfferIds :
    (Due(id) /\ seenOffers[id].expiresAt \notin {NaN, Null}) ~> (id \notin DOMAIN seenOffers)

\* Deleting a message.
\* C29: deleteMessage returns a boolean for every message handle and every
\* state of the notifier (not ready, message not found, transport error
\* included) and never throws.
C29_DeleteNeverThrows == deleted.result \in {"none", "true", "false"}

\* the part of C29 about a notifier that is ready
C29_DeleteWhenReady ==
  [][(deleted' /= deleted /\ isReady) => deleted'.result \in {"true", "false"}]_vars

\* Disabling the bot.
\* start() and every configChanged handler have finished, and the bot is
\* disabled
Quiesced ==
  /\ phase = "listening"
  /\ \A s \in Slots : cyc[s].caller \notin {"startup", "handler"}
  /\ ~BOT_ENABLED

\* C30: whatever the interleaving of settings updates with the startup and
\* with cycles in flight, once start() and all handlers have finished and
\* BOT_ENABLED is false, no interval timer is armed and no cycle starts.
C30_DisabledMeansStopped ==
  /\ [](Quiesced => armedTimers = 0)
  /\ [][(Quiesced /\ ~BOT_ENABLED') => \A s \in Slots : ~CycleStarts(s)]_vars

\* Tracking of the offers a cycle notified.
\* C31: every offer whose notification was sent in a cycle is tracked when the
\* cycle ends, also when the send of a later offer of the cycle fails.
C31_SentOffersTracked ==
  last.outcome /= "none"
  => \A k \in 1..Len(last.sent) : last.sent[k].offer.id \in DOMAIN last.endSeen

\* the same for the cycles in which no send failed
C31_SentOffersTrackedWhenAllSent ==
  last.outcome = "done"
  => \A k \in 1..Len(last.sent) : last.sent[k].offer.id \in DOMAIN last.endSeen

\* Memory and file.
OnDisk == IF disk.kind = "object" THEN disk.data ELSE EmptyMap
CycleEnded == last.outcome /= "none"

\* C32: at the end of every cycle, the cycles in which a save failed or that
\* were aborted included, the store in memory and the file hold the same
\* records.
C32_MemoryMatchesDisk == CycleEnded => Serialize(seenOffers).data = OnDisk

\* Termination of a cycle.
Running(s) == cyc[s].pc /= "idle"

\* C33: every cycle that started ends, however it ends (done, an error, an
\* invalid notification configuration, an abort), and the flag
\* isCheckInProgress is clear once no cycle runs, so that the next call of
\* checkForNewOffers starts a cycle.
C33_CycleEnds ==
  /\ (\E s \in Slots : Running(s)) ~> (InFlight = {})
  /\ [](InFlight = {} => CanStartCheck(isCheckInProgress))

\* a tick started a cycle after a cycle that ended with an error
C33_Witness ==
  \E s \in Slots : /\ Running(s)
                   /\ cyc[s].caller = "timer"
                   /\ cyc[s].prevOutcome \in {"sendFailed", "saveFailed", "cleanupSaveFailed"}

C33_AbortedCycleEnded == last.outcome = "aborted" /\ InFlight = {} /\ ~isCheckInProgress
C33_InvalidConfigCycleEnded == last.outcome = "invalidConfig" /\ InFlight = {} /\ ~isCheckInProgress

\* The abort flag.
\* C34: shouldAbortCheck is raised only while a cycle is in flight, and every
\* cycle that starts begins with the flag cleared, so an abort raised for one
\* cycle never cancels a later one.
C34_AbortIsPerCycle ==
  [][/\ (shouldAbortCheck' /\ ~shouldAbortCheck) => InFlight /= {}
     /\ \A s \in Slots : CycleStarts(s) => ~shouldAbortCheck']_vars

\* a cycle runs, with the flag cleared, after a cycle that was aborted
C34_Witness ==
  \E s \in Slots : Running(s) /\ cyc[s].prevOutcome = "aborted" /\ ~shouldAbortCheck

\* The interval timer.
\* C35: at most one interval timer is armed at any time, whatever the
\* interleaving of start(), the configChanged handlers and the cycles: a timer
\* is armed exactly when checkInterval holds one.
C35_AtMostOneTimer == armedTimers <= 1 /\ (checkInterval <=> armedTimers = 1)

\* a configChanged handler awaits its check while a timer is armed and another
\* call of checkForNewOffers has returned at once
C35_Witness ==
  \E s \in Slots : /\ Running(s)
                   /\ cyc[s].caller = "handler"
                   /\ cyc[s].overlapped
                   /\ armedTimers = 1

\* Settings updates that fail.
\* C36: a settings update that fails leaves the configuration as it was, the
\* file config.json and the values in memory alike.
C36_FailedUpdateChangesNothing ==
  failedUpdate.failed
  => <<BOT_ENABLED, IS_FIRST_RUN, notifValid, WHATSAPP_GROUP_NAME, configFile>> = failedUpdate.before

\* the part of C36 about the event: a settings update that fails runs no
\* configChanged handler
C36_FailedUpdateEmitsNothing ==
  [][(failedUpdate'.failed /\ failedUpdate' /= failedUpdate)
     => UNCHANGED <<cyc, timerVars, isCheckInProgress, shouldAbortCheck>>]_vars

\* The first cycle.
\* no cycle has started since the process started
NeverRan == InFlight = {} /\ last.outcome = "none"
FirstCycleStarts == NeverRan /\ ~NeverRan'

\* C37: before start() has seen WhatsApp ready no cycle runs and no timer is
\* armed; the first cycle starts, and a timer is armed, only with the bot
\* enabled and not on a first run; when the bot is disabled or on a first run,
\* the step that starts the first cycle is a settings update that enables the
\* bot.
C37_StartsOnlyWhenEnabled ==
  /\ [](phase \in {"boot", "waitReady"} => (InFlight = {} /\ armedTimers = 0))
  /\ [](NeverRan => armedTimers = 0)
  /\ [][FirstCycleStarts
        => /\ BOT_ENABLED' /\ ~IS_FIRST_RUN'
           /\ (~BOT_ENABLED \/ IS_FIRST_RUN) => configVars' /= configVars]_vars

\* the handler of an enabling settings update runs the first cycle
C37_Witness ==
  \E s \in Slots : Running(s) /\ cyc[s].caller = "handler" /\ cyc[s].prevOutcome = "none"

\* Round trip of the store.
\* the record of offer id in the store that save() wrote to the file
Saved(id) == [expiresAt |-> recDisk[id].expiresAt, messageId |-> disk.data[id].messageId,
              sentAt |-> recDisk[id].sentAt]
LoadsSaved == Loads /\ disk.kind = "object" /\ ~initialized'.threw
SavedUnexpired(id) == ~LeqNow(recDisk[id].expiresAt, now)

\* C38: initialize() on the file that save() wrote for a store whose records
\* are all unexpired gives the same offer ids, each with the same expiresAt,
\* messageId and sentAt.
C38_RoundTrip ==
  [][(LoadsSaved /\ \A id \in DOMAIN disk.data : SavedUnexpired(id))
     => seenOffers' = [id \in DOMAIN disk.data |-> Saved(id)]]_vars

\* the same for the stores whose expiresAt are all numbers
C38_RoundTripOfNumbers ==
  [][(LoadsSaved /\ \A id \in DOMAIN disk.data : SavedUnexpired(id) /\ recDisk[id].expiresAt /= NaN)
     => seenOffers' = [id \in DOMAIN disk.data |-> Saved(id)]]_vars

\* a saved store with an unexpired record has been loaded again
C38_Reloaded == initialized.kind = "object" /\ phase = "waitReady" /\ seenOffers /= EmptyMap

====
